---- MODULE Spec2Model ----
(***************************************************************************)
(* Model of the Bank class: an in-memory list of accounts, a list of       *)
(* registered usernames, and the four operations createAccount, deposit,   *)
(* withdraw and getBalance.                                                *)
(*                                                                         *)
(* Every argument of the class is a JavaScript number.  Amounts and        *)
(* balances are modelled as tagged values: a finite integer, NaN,          *)
(* Infinity or -Infinity, with the comparison and arithmetic rules of      *)
(* IEEE-754 for the non-finite ones.  Finite arithmetic is exact (the      *)
(* rounding of large or fractional values is not modelled).  Account       *)
(* numbers are modelled as decimal numerals (sign and digit sequence) so   *)
(* that Number.prototype.toString and its length are computed digit by     *)
(* digit, and so that values above 2^31 are representable.                 *)
(***************************************************************************)
EXTENDS Integers, Sequences, FiniteSets, TLC

VARIABLES accounts, usernames, call, result, ledger, mutations

vars == <<accounts, usernames, call, result, ledger, mutations>>

----------------------------------------------------------------------------
(* Bounds of the model *)

\* largest number of accounts the collection grows to
MaxAccounts == 3

\* largest number of successful deposits and withdrawals in one run
MaxMutations == 2

----------------------------------------------------------------------------
(* JavaScript numbers used as amounts and balances *)

Fin(n) == [k |-> "fin", v |-> n]

NaN == [k |-> "nan", v |-> 0]

Infinity == [k |-> "inf", v |-> 0]

NegInfinity == [k |-> "ninf", v |-> 0]

\* a < b
JsLt(a, b) ==
    IF a.k = "nan" \/ b.k = "nan" THEN FALSE
    ELSE IF a.k = "inf" THEN FALSE
    ELSE IF b.k = "ninf" THEN FALSE
    ELSE IF a.k = "ninf" THEN TRUE
    ELSE IF b.k = "inf" THEN TRUE
    ELSE a.v < b.v

\* a <= b
JsLe(a, b) ==
    IF a.k = "nan" \/ b.k = "nan" THEN FALSE
    ELSE ~JsLt(b, a)

\* a + b
JsAdd(a, b) ==
    IF a.k = "nan" \/ b.k = "nan" THEN NaN
    ELSE IF a.k = "fin" /\ b.k = "fin" THEN Fin(a.v + b.v)
    ELSE IF a.k = "fin" THEN b
    ELSE IF b.k = "fin" THEN a
    ELSE IF a.k = b.k THEN a
    ELSE NaN

\* -b
JsNeg(b) ==
    IF b.k = "nan" THEN NaN
    ELSE IF b.k = "inf" THEN NegInfinity
    ELSE IF b.k = "ninf" THEN Infinity
    ELSE Fin(0 - b.v)

\* a - b
JsSub(a, b) == JsAdd(a, JsNeg(b))

----------------------------------------------------------------------------
(* JavaScript numbers used as account numbers: decimal numerals *)

\* an integer given by its sign and its decimal digits, most significant first
Numeral(neg, digits) == [k |-> "fin", neg |-> neg, digits |-> digits]

NaNNumber == [k |-> "nan", neg |-> FALSE, digits |-> <<>>]

DigitChar(d) == <<"0", "1", "2", "3", "4", "5", "6", "7", "8", "9">>[d + 1]

\* Number.prototype.toString of an integer below 10^21, as a sequence of characters
toString(n) ==
    IF n.k = "nan" THEN <<"N", "a", "N">>
    ELSE (IF n.neg THEN <<"-">> ELSE <<>>)
         \o [i \in 1..Len(n.digits) |-> DigitChar(n.digits[i])]

\* a === b
StrictEq(a, b) == a.k # "nan" /\ b.k # "nan" /\ a = b

\* number of characters that isAccountNumberInvalid requires
AccountNumberLength == 10

\* age below which createAccount refuses
MinAge == 18

----------------------------------------------------------------------------
(* Private helpers of Bank *)

\* index of the first account whose id is the given one, 0 for undefined
findAccountById(id) ==
    IF \E i \in 1..Len(accounts) : StrictEq(accounts[i].id, id)
    THEN CHOOSE i \in 1..Len(accounts) :
            /\ StrictEq(accounts[i].id, id)
            /\ \A j \in 1..(i - 1) : ~StrictEq(accounts[j].id, id)
    ELSE 0

isAccountNumberInvalid(accountNumber) ==
    Len(toString(accountNumber)) # AccountNumberLength

isUsernameExisits(username) ==
    \E i \in 1..Len(usernames) : usernames[i] = username

----------------------------------------------------------------------------
(* Values the operations are called with *)

N1234567890 == Numeral(FALSE, <<1, 2, 3, 4, 5, 6, 7, 8, 9, 0>>)
N1234567891 == Numeral(FALSE, <<1, 2, 3, 4, 5, 6, 7, 8, 9, 1>>)
N1234567892 == Numeral(FALSE, <<1, 2, 3, 4, 5, 6, 7, 8, 9, 2>>)
N9999999999 == Numeral(FALSE, <<9, 9, 9, 9, 9, 9, 9, 9, 9, 9>>)
N123456789 == Numeral(FALSE, <<1, 2, 3, 4, 5, 6, 7, 8, 9>>)
N12345678901 == Numeral(FALSE, <<1, 2, 3, 4, 5, 6, 7, 8, 9, 0, 1>>)
NegN123456789 == Numeral(TRUE, <<1, 2, 3, 4, 5, 6, 7, 8, 9>>)

\* account numbers passed to createAccount
AccountNumbers ==
    {N1234567890, N1234567892, N123456789, N12345678901, NegN123456789, NaNNumber}

\* account ids passed to deposit, withdraw and getBalance
AccountIds == {N1234567890, N1234567892, N9999999999}

Usernames == {"user1", "user3"}

Ages == {17, 18}

Amounts == {Fin(0 - 100), Fin(0), Fin(1000), NaN, Infinity}

\* the arguments of the constructor: one account, or the accounts of the test script
SeedAccounts ==
    { <<[id |-> N1234567892, balance |-> Fin(0)]>>,
      <<[id |-> N1234567890, balance |-> Fin(5000)],
        [id |-> N1234567891, balance |-> Fin(10000)]>> }

SeedUsernames == <<"user1", "user2">>

----------------------------------------------------------------------------
(* Records of the last call and of what it returned or threw *)

NoAccount == [id |-> NaNNumber, balance |-> NaN]

Call(op, username, age, number, amount) ==
    [op |-> op, username |-> username, age |-> age, number |-> number, amount |-> amount]

Threw(message) == [error |-> message, account |-> NoAccount, value |-> NaN]

ReturnedAccount(account) == [error |-> "none", account |-> account, value |-> NaN]

ReturnedNumber(n) == [error |-> "none", account |-> NoAccount, value |-> n]

\* what has been paid into and out of an account since it entered the collection
LedgerEntry(initial) == [initial |-> initial, deposited |-> Fin(0), withdrawn |-> Fin(0)]

----------------------------------------------------------------------------
(* Operations *)

Init ==
    /\ accounts \in SeedAccounts
    /\ usernames = SeedUsernames
    /\ call = Call("constructor", "", 0, NaNNumber, NaN)
    /\ result = Threw("none")
    /\ ledger = [i \in 1..Len(accounts) |-> LedgerEntry(accounts[i].balance)]
    /\ mutations = 0

\* createAccountError without the lookup of the account number
createAccountErrorNoLookup(username, age, accountNumber) ==
    IF isAccountNumberInvalid(accountNumber) THEN "Invalid account number"
    ELSE IF ~isUsernameExisits(username) THEN "User not found"
    ELSE IF age < MinAge THEN "User is under 18"
    ELSE "none"

createAccountError(username, age, accountNumber) ==
    IF isAccountNumberInvalid(accountNumber) THEN "Invalid account number"
    ELSE IF ~isUsernameExisits(username) THEN "User not found"
    ELSE IF age < MinAge THEN "User is under 18"
    ELSE IF findAccountById(accountNumber) # 0 THEN "Account already exists"
    ELSE "none"

\* createAccount that puts the new account first (unshift for push)
createAccountUnshift(username, age, accountNumber) ==
    LET error == createAccountError(username, age, accountNumber)
        account == [id |-> accountNumber, balance |-> Fin(0)]
    IN  /\ call' = Call("createAccount", username, age, accountNumber, NaN)
        /\ IF error # "none"
           THEN /\ result' = Threw(error)
                /\ UNCHANGED <<accounts, ledger>>
           ELSE /\ Len(accounts) < MaxAccounts
                /\ accounts' = <<account>> \o accounts
                /\ ledger' = <<LedgerEntry(account.balance)>> \o ledger
                /\ result' = ReturnedAccount(account)
        /\ UNCHANGED <<usernames, mutations>>

createAccount(username, age, accountNumber) ==
    LET error == createAccountError(username, age, accountNumber)
        account == [id |-> accountNumber, balance |-> Fin(0)]
    IN  /\ call' = Call("createAccount", username, age, accountNumber, NaN)
        /\ IF error # "none"
           THEN /\ result' = Threw(error)
                /\ UNCHANGED <<accounts, ledger>>
           ELSE /\ Len(accounts) < MaxAccounts
                /\ accounts' = Append(accounts, account)
                /\ ledger' = Append(ledger, LedgerEntry(account.balance))
                /\ result' = ReturnedAccount(account)
        /\ UNCHANGED <<usernames, mutations>>

\* depositError that lets an amount of 0 through (< for <=)
depositErrorAcceptsZero(accountId, amount) ==
    IF findAccountById(accountId) = 0 THEN "Account not found"
    ELSE IF JsLt(amount, Fin(0)) THEN "Invalid deposit amount"
    ELSE "none"

depositError(accountId, amount) ==
    IF findAccountById(accountId) = 0 THEN "Account not found"
    ELSE IF JsLe(amount, Fin(0)) THEN "Invalid deposit amount"
    ELSE "none"

\* deposit that overwrites the balance (= for +=)
depositOverwrites(accountId, amount) ==
    LET error == depositError(accountId, amount)
        i == findAccountById(accountId)
    IN  /\ call' = Call("deposit", "", 0, accountId, amount)
        /\ IF error # "none"
           THEN /\ result' = Threw(error)
                /\ UNCHANGED <<accounts, ledger, mutations>>
           ELSE /\ mutations < MaxMutations
                /\ accounts' = [accounts EXCEPT ![i].balance = amount]
                /\ ledger' = [ledger EXCEPT ![i].deposited = JsAdd(@, amount)]
                /\ mutations' = mutations + 1
                /\ result' = ReturnedAccount(accounts'[i])
        /\ UNCHANGED usernames

deposit(accountId, amount) ==
    LET error == depositError(accountId, amount)
        i == findAccountById(accountId)
    IN  /\ call' = Call("deposit", "", 0, accountId, amount)
        /\ IF error # "none"
           THEN /\ result' = Threw(error)
                /\ UNCHANGED <<accounts, ledger, mutations>>
           ELSE /\ mutations < MaxMutations
                /\ accounts' = [accounts EXCEPT ![i].balance = JsAdd(@, amount)]
                /\ ledger' = [ledger EXCEPT ![i].deposited = JsAdd(@, amount)]
                /\ mutations' = mutations + 1
                /\ result' = ReturnedAccount(accounts'[i])
        /\ UNCHANGED usernames

withdrawError(accountId, amount) ==
    IF findAccountById(accountId) = 0 THEN "Account not found"
    ELSE IF JsLe(amount, Fin(0)) THEN "Invalid withdrawal amount"
    ELSE IF JsLt(accounts[findAccountById(accountId)].balance, amount)
         THEN "Insufficient funds"
    ELSE "none"

\* withdraw that takes the amount before it checks the funds
withdrawTakesFirst(accountId, amount) ==
    LET error == withdrawError(accountId, amount)
        i == findAccountById(accountId)
    IN  /\ call' = Call("withdraw", "", 0, accountId, amount)
        /\ IF error = "Insufficient funds"
           THEN /\ accounts' = [accounts EXCEPT ![i].balance = JsSub(@, amount)]
                /\ result' = Threw(error)
                /\ UNCHANGED <<ledger, mutations>>
           ELSE IF error # "none"
           THEN /\ result' = Threw(error)
                /\ UNCHANGED <<accounts, ledger, mutations>>
           ELSE /\ mutations < MaxMutations
                /\ accounts' = [accounts EXCEPT ![i].balance = JsSub(@, amount)]
                /\ ledger' = [ledger EXCEPT ![i].withdrawn = JsAdd(@, amount)]
                /\ mutations' = mutations + 1
                /\ result' = ReturnedAccount(accounts'[i])
        /\ UNCHANGED usernames

withdraw(accountId, amount) ==
    LET error == withdrawError(accountId, amount)
        i == findAccountById(accountId)
    IN  /\ call' = Call("withdraw", "", 0, accountId, amount)
        /\ IF error # "none"
           THEN /\ result' = Threw(error)
                /\ UNCHANGED <<accounts, ledger, mutations>>
           ELSE /\ mutations < MaxMutations
                /\ accounts' = [accounts EXCEPT ![i].balance = JsSub(@, amount)]
                /\ ledger' = [ledger EXCEPT ![i].withdrawn = JsAdd(@, amount)]
                /\ mutations' = mutations + 1
                /\ result' = ReturnedAccount(accounts'[i])
        /\ UNCHANGED usernames

\* getBalance that reads the first account of the collection
getBalanceOfFirst(accountId) ==
    LET i == findAccountById(accountId)
    IN  /\ call' = Call("getBalance", "", 0, accountId, NaN)
        /\ IF i = 0
           THEN result' = Threw("Account not found")
           ELSE result' = ReturnedNumber(accounts[1].balance)
        /\ UNCHANGED <<accounts, usernames, ledger, mutations>>

getBalance(accountId) ==
    LET i == findAccountById(accountId)
    IN  /\ call' = Call("getBalance", "", 0, accountId, NaN)
        /\ IF i = 0
           THEN result' = Threw("Account not found")
           ELSE result' = ReturnedNumber(accounts[i].balance)
        /\ UNCHANGED <<accounts, usernames, ledger, mutations>>

CreateAccountCall ==
    \E username \in Usernames, age \in Ages, accountNumber \in AccountNumbers :
        createAccount(username, age, accountNumber)

DepositCall ==
    \E accountId \in AccountIds, amount \in Amounts : deposit(accountId, amount)

WithdrawCall ==
    \E accountId \in AccountIds, amount \in Amounts : withdraw(accountId, amount)

GetBalanceCall ==
    \E accountId \in AccountIds : getBalance(accountId)

Next == CreateAccountCall \/ DepositCall \/ WithdrawCall \/ GetBalanceCall

Spec == Init /\ [][Next]_vars

----------------------------------------------------------------------------
(* Vocabulary of the properties *)

\* the error kind that a thrown message stands for
ErrorKind(message) ==
    CASE message = "Invalid account number" -> "InvalidAccountNumber"
      [] message = "User not found" -> "UnknownUser"
      [] message = "User is under 18" -> "UnderageUser"
      [] message = "Account already exists" -> "DuplicateAccount"
      [] message = "Account not found" -> "AccountNotFound"
      [] message = "Invalid deposit amount" -> "InvalidAmount"
      [] message = "Invalid withdrawal amount" -> "InvalidAmount"
      [] message = "Insufficient funds" -> "InsufficientFunds"
      [] OTHER -> "none"

\* an integer in 1000000000..9999999999
IsTenDigitNumber(n) ==
    /\ n.k = "fin"
    /\ ~n.neg
    /\ Len(n.digits) = 10
    /\ n.digits[1] # 0

\* the positions of the collection that hold the given id
Holders(id) == {i \in 1..Len(accounts) : accounts[i].id = id}

Registered(username) == username \in {usernames[i] : i \in 1..Len(usernames)}

Succeeded(op) == call.op = op /\ result.error = "none"

\* every position but i holds the same account before and after the step
OthersUnchanged(i) ==
    /\ Len(accounts') = Len(accounts)
    /\ \A j \in 1..Len(accounts) : j # i => accounts'[j] = accounts[j]

----------------------------------------------------------------------------
(* C1 *)

\* C1: every account of the collection has a balance >= 0 after any sequence
\* of calls.
BalanceNonNegative ==
    \A i \in 1..Len(accounts) : JsLe(Fin(0), accounts[i].balance)

----------------------------------------------------------------------------
(* C2 *)

UniqueIds ==
    \A i, j \in 1..Len(accounts) : i # j => accounts[i].id # accounts[j].id

DuplicateRefused ==
    (/\ call'.op = "createAccount"
     /\ Holders(call'.number) # {}
     /\ Len(toString(call'.number)) = 10
     /\ Registered(call'.username)
     /\ call'.age >= 18)
    => (/\ ErrorKind(result'.error) = "DuplicateAccount"
        /\ accounts' = accounts)

\* C2: no two accounts ever share an id, and a createAccount call whose number
\* is the id of an account already present and that passes the other checks
\* fails with DuplicateAccount and adds nothing.
NoTwoAccountsShareAnId == []UniqueIds /\ [][DuplicateRefused]_vars

\* a createAccount was refused as a duplicate after a deposit or withdrawal
DuplicateRefusedReached ==
    /\ call.op = "createAccount"
    /\ ErrorKind(result.error) = "DuplicateAccount"
    /\ mutations > 0

----------------------------------------------------------------------------
(* C3 *)

\* C3: every account added by createAccount has an id of exactly 10 decimal
\* digits (an integer in 1000000000..9999999999), and the id of an account
\* never changes under a later operation.
CreatedIdHasTenDigits ==
    /\ [](Succeeded("createAccount") => IsTenDigitNumber(result.account.id))
    /\ [][\A i \in 1..Len(accounts) : accounts'[i].id = accounts[i].id]_vars

----------------------------------------------------------------------------
(* C4 *)

\* the error of the first failing check in the documented order
FirstFailingCheck(username, age, accountNumber) ==
    IF ~IsTenDigitNumber(accountNumber) THEN "InvalidAccountNumber"
    ELSE IF ~Registered(username) THEN "UnknownUser"
    ELSE IF age < 18 THEN "UnderageUser"
    ELSE IF Holders(accountNumber) # {} THEN "DuplicateAccount"
    ELSE "none"

\* C4: createAccount reports the error of the first failing check in the
\* order InvalidAccountNumber, UnknownUser, UnderageUser, DuplicateAccount;
\* a number that has not exactly 10 digits yields InvalidAccountNumber
\* whatever the username, the age and the accounts.
CreateReportsFirstFailingCheck ==
    [][call'.op = "createAccount" =>
         ErrorKind(result'.error)
             = FirstFailingCheck(call'.username, call'.age, call'.number)]_vars

----------------------------------------------------------------------------
(* C5 *)

FailureChangesNothing ==
    result'.error # "none" => accounts' = accounts /\ usernames' = usernames

OverdraftRefused ==
    \A i \in Holders(call'.number) :
        (/\ call'.op = "withdraw"
         /\ JsLt(accounts[i].balance, call'.amount))
        => (/\ ErrorKind(result'.error) = "InsufficientFunds"
            /\ accounts'[i].balance = accounts[i].balance)

SuccessChangesOneThing ==
    result'.error = "none" =>
        /\ usernames' = usernames
        /\ call'.op = "createAccount" =>
              /\ Len(accounts') = Len(accounts) + 1
              /\ SubSeq(accounts', 1, Len(accounts)) = accounts
        /\ call'.op \in {"deposit", "withdraw"} =>
              /\ Cardinality(Holders(call'.number)) = 1
              /\ \A i \in Holders(call'.number) : OthersUnchanged(i)
        /\ call'.op = "getBalance" => accounts' = accounts

\* C5: a call that fails leaves the accounts and the usernames as they were;
\* a withdraw of more than the balance fails with InsufficientFunds and the
\* balance stays; a call that succeeds makes one change (one appended account
\* or the balance of one account), and getBalance makes none.
FailureIsAtomic ==
    [][FailureChangesNothing /\ OverdraftRefused /\ SuccessChangesOneThing]_vars

\* a withdrawal was refused for lack of funds on the seeded account
OverdraftRefusedReached ==
    /\ call.op = "withdraw"
    /\ ErrorKind(result.error) = "InsufficientFunds"
    /\ call.number = N1234567892

----------------------------------------------------------------------------
(* C6 *)

\* the balance after paying in (sign 1) or out (sign -1) exactly the amount
ExactlyBy(balance, sign, amount) ==
    IF balance.k = "fin" /\ amount.k = "fin"
    THEN Fin(balance.v + sign * amount.v)
    ELSE IF sign = 1 THEN JsAdd(balance, amount) ELSE JsSub(balance, amount)

MovesExactlyAmount(op, sign) ==
    (call'.op = op /\ result'.error = "none") =>
        \E i \in Holders(call'.number) :
            /\ accounts'[i].id = accounts[i].id
            /\ accounts'[i].balance = ExactlyBy(accounts[i].balance, sign, call'.amount)
            /\ result'.account = accounts'[i]
            /\ OthersUnchanged(i)
            /\ usernames' = usernames

\* C6: a successful deposit adds exactly the amount to the balance of the
\* account with that id, a successful withdraw subtracts exactly the amount,
\* the returned account carries the new balance and nothing else changes.
DepositAndWithdrawMoveExactlyAmount ==
    [][MovesExactlyAmount("deposit", 1) /\ MovesExactlyAmount("withdraw", 0 - 1)]_vars

\* the deposit of the test script: 1000 on 5000 gives 6000
DepositReached ==
    /\ Succeeded("deposit")
    /\ call.number = N1234567890
    /\ result.account.balance = Fin(6000)

----------------------------------------------------------------------------
(* C7 *)

NotFoundComesFirst ==
    (call'.op \in {"deposit", "withdraw"} /\ Holders(call'.number) = {})
    => ErrorKind(result'.error) = "AccountNotFound"

InvalidAmountComesSecond ==
    (/\ call'.op \in {"deposit", "withdraw"}
     /\ Holders(call'.number) # {}
     /\ JsLe(call'.amount, Fin(0)))
    => ErrorKind(result'.error) = "InvalidAmount"

InsufficientFundsComesLast ==
    (call'.op = "withdraw" /\ ErrorKind(result'.error) = "InsufficientFunds")
    => (/\ Holders(call'.number) # {}
        /\ JsLt(Fin(0), call'.amount)
        /\ \A i \in Holders(call'.number) : JsLt(accounts[i].balance, call'.amount))

WholeBalanceCanBeWithdrawn ==
    \A i \in Holders(call'.number) :
        (/\ call'.op = "withdraw"
         /\ JsLt(Fin(0), accounts[i].balance)
         /\ call'.amount = accounts[i].balance)
        => (/\ result'.error = "none"
            /\ accounts'[i].balance = Fin(0))

\* C7: deposit and withdraw fail with AccountNotFound on an id with no account
\* whatever the amount, with InvalidAmount on an existing account when the
\* amount is <= 0, and withdraw fails with InsufficientFunds only when the
\* account exists, the amount is > 0 and exceeds the balance; a withdraw of
\* exactly the current positive balance succeeds and leaves balance 0.
ChecksAreOrdered ==
    [][/\ NotFoundComesFirst
       /\ InvalidAmountComesSecond
       /\ InsufficientFundsComesLast
       /\ WholeBalanceCanBeWithdrawn]_vars

----------------------------------------------------------------------------
(* C8 *)

\* C8: a deposit or withdraw with amount <= 0 reports InvalidAmount for every
\* account id, whether or not an account with that id exists.
NonPositiveAmountAlwaysInvalid ==
    (call.op \in {"deposit", "withdraw"} /\ JsLe(call.amount, Fin(0)))
    => ErrorKind(result.error) = "InvalidAmount"

\* C8 as amended: a deposit or withdraw with amount <= 0 on the id of an
\* existing account reports InvalidAmount and changes nothing.
NonPositiveAmountInvalidOnExistingAccount ==
    [][(/\ call'.op \in {"deposit", "withdraw"}
        /\ JsLe(call'.amount, Fin(0))
        /\ \E i \in 1..Len(accounts) : accounts[i].id = call'.number)
       => (/\ ErrorKind(result'.error) = "InvalidAmount"
           /\ accounts' = accounts)]_vars

\* a withdraw of 0 was refused on an account that createAccount added
ZeroWithdrawRefusedReached ==
    /\ call.op = "withdraw"
    /\ call.amount = Fin(0)
    /\ result.error = "Invalid withdrawal amount"
    /\ Len(accounts) = 3
    /\ accounts[3].id = call.number

----------------------------------------------------------------------------
(* C9 *)

CreateAppendsOneAccount ==
    (call'.op = "createAccount" /\ result'.error = "none") =>
        /\ accounts' = Append(accounts, [id |-> call'.number, balance |-> Fin(0)])
        /\ result'.account = accounts'[Len(accounts')]
        /\ usernames' = usernames
        /\ \E i \in 1..Len(usernames') : usernames'[i] = call'.username

\* C9: a successful createAccount appends one account with the given id and
\* balance 0 at the end and returns it; the accounts already present and the
\* usernames stay as they were, so the username remains registered and can
\* open another account.
CreateAppendsAndKeepsTheRest == [][CreateAppendsOneAccount]_vars

\* the same username has opened a second account, with another number
SecondAccountOpenedReached ==
    /\ Succeeded("createAccount")
    /\ call.username = "user1"
    /\ Len(accounts) = 3
    /\ accounts[1].id = N1234567892
    /\ accounts[2].id # accounts[3].id
    /\ accounts[3] = result.account

----------------------------------------------------------------------------
(* C10 *)

\* initial balance plus what was deposited minus what was withdrawn
LedgerBalance(entry) == JsSub(JsAdd(entry.initial, entry.deposited), entry.withdrawn)

GetBalanceReadsTheLedger ==
    call'.op = "getBalance" =>
        /\ accounts' = accounts
        /\ usernames' = usernames
        /\ IF Holders(call'.number) = {}
           THEN ErrorKind(result'.error) = "AccountNotFound"
           ELSE \A i \in Holders(call'.number) :
                   /\ result'.error = "none"
                   /\ result'.value = accounts[i].balance
                   /\ result'.value = LedgerBalance(ledger[i])

CreatedAccountStartsAtZero ==
    (call'.op = "createAccount" /\ result'.error = "none") =>
        ledger'[Len(ledger')].initial = Fin(0)

\* C10: getBalance on an existing account returns its current balance, which
\* is its initial balance (0 for a created account) plus the successful
\* deposits minus the successful withdrawals on that id; on an id with no
\* account it fails with AccountNotFound; it changes no account and no username.
GetBalanceReturnsLedgerBalance ==
    [][GetBalanceReadsTheLedger /\ CreatedAccountStartsAtZero]_vars

\* the balance check of the test script: 5000 after +1000 and -1000
BalanceReadReached ==
    /\ Succeeded("getBalance")
    /\ call.number = N1234567890
    /\ mutations = 2
    /\ \E i \in Holders(call.number) :
          /\ ledger[i].deposited = Fin(1000)
          /\ ledger[i].withdrawn = Fin(1000)
    /\ result.value = Fin(5000)

====
